---- MODULE Spec2Model ----
(***************************************************************************)
(* Model of the parsing / recombination core of RAGFactChecker:            *)
(*   - LLMMultiShotTripletGenerator  (forward, preprocess_output,          *)
(*     parse_triplet_generation_output)                                    *)
(*   - LLMMultiShotFactChecker       (forward, model_forward, the two      *)
(*     verdict parsers, the segment merge)                                 *)
(*   - LLMHallucinationDataGenerator (generate_hlcntn_data and its parser) *)
(*                                                                         *)
(* Model output is a sequence of tokens.  A token stands for the run of    *)
(* characters it is written with ("True", "exit()", "[FINAL ANSWER]"), a   *)
(* string token of the triplet text ("a", "b") stands for the quoted       *)
(* one-character Python string literal.  Python's eval is modelled by a    *)
(* recursive-descent parser of the expression grammar these tokens span,   *)
(* followed by left-to-right evaluation: an undefined name raises          *)
(* NameError (an Exception), the call exit() raises SystemExit (which is   *)
(* not an Exception and passes every "except Exception" handler).          *)
(***************************************************************************)
EXTENDS Integers, Sequences, FiniteSets, TLC

VARIABLES
    comp,       \* which component this run drives: "tg", "fc" or "hg"
    pc,         \* position of the running call
    calls,      \* number of model invocations issued so far
    failed,     \* the last model invocation raised its terminal error
    raw,        \* text returned by the last model invocation
    tg_result,  \* value returned by LLMMultiShotTripletGenerator.forward
    split,      \* config.model.fact_checker.split_reference_triplets
    inquiry,    \* config.model.fact_checker.inquiry_mode
    answer_triplets,     \* argument of LLMMultiShotFactChecker.forward
    reference_triplets,  \* argument of forward: a list of segments
    seg,        \* number of the segment the split loop is at (from 1)
    output_list,         \* per-segment results collected by the split loop
    prompt,     \* prompt of the comparison being made
    parser,     \* parser applied to the last response
    fc_result,  \* value returned by LLMMultiShotFactChecker.forward
    hg_result   \* value returned by LLMHallucinationDataGenerator.generate_hlcntn_data

tgvars == <<tg_result>>
fcvars == <<split, inquiry, answer_triplets, reference_triplets, seg,
            output_list, prompt, parser, fc_result>>
hgvars == <<hg_result>>
vars == <<comp, pc, calls, failed, raw, tgvars, fcvars, hgvars>>

\* ------------------------------------------------------------ bounds
MaxElems == 2       \* top-level elements of a generated triplet list
MaxInner == 4       \* sub-elements of one generated element
MaxJunk  == 2       \* tokens of an arbitrary (unstructured) model output
MaxIdx   == 1       \* largest index written in a well-formed verdict entry
MaxToks  == 2       \* comma/newline-delimited tokens of a verdict listing
MaxDelims == 2      \* occurrences of the delimiter in one response
MaxAnswers == 2     \* answer triplets of one check
MaxSegs  == 2       \* reference segments of one check
MaxDetails == 2     \* elements of a generated hallucinated_details list

\* ------------------------------------------------------------ sequences
RECURSIVE Concat(_)
Concat(ss) == IF ss = <<>> THEN <<>> ELSE Head(ss) \o Concat(Tail(ss))

RECURSIVE Join(_, _)
Join(ss, sep) ==
    IF ss = <<>> THEN <<>>
    ELSE IF Len(ss) = 1 THEN Head(ss)
    ELSE Head(ss) \o sep \o Join(Tail(ss), sep)

RECURSIVE SeqsUpTo(_, _)
SeqsUpTo(S, n) ==
    IF n = 0 THEN {<<>>}
    ELSE LET prev == SeqsUpTo(S, n - 1)
         IN prev \cup {Append(s, x) : s \in {p \in prev : Len(p) = n - 1}, x \in S}

\* str.strip(): leading and trailing whitespace removed
RECURSIVE LStrip(_)
LStrip(t) == IF t # <<>> /\ Head(t) = " " THEN LStrip(Tail(t)) ELSE t

RECURSIVE RStrip(_)
RStrip(t) ==
    IF t # <<>> /\ t[Len(t)] = " " THEN RStrip(SubSeq(t, 1, Len(t) - 1)) ELSE t

Strip(t) == RStrip(LStrip(t))

\* str.replace(tok, ""): every occurrence of one token removed
RemoveTok(t, tok) == SelectSeq(t, LAMBDA x : x # tok)

\* the leading occurrences of one token removed (what str.lstrip(tok) would do;
\* the parsers call str.replace, see UpdateEntry)
RECURSIVE LStripTok(_, _)
LStripTok(t, tok) == IF t # <<>> /\ Head(t) = tok THEN LStripTok(Tail(t), tok) ELSE t

\* str.replace(pat, rep) for a pattern of several tokens: leftmost,
\* non-overlapping occurrences, scanning left to right
RECURSIVE ReplaceSeq(_, _, _)
ReplaceSeq(t, pat, rep) ==
    IF Len(t) < Len(pat) THEN t
    ELSE IF SubSeq(t, 1, Len(pat)) = pat
         THEN rep \o ReplaceSeq(SubSeq(t, Len(pat) + 1, Len(t)), pat, rep)
         ELSE <<Head(t)>> \o ReplaceSeq(Tail(t), pat, rep)

\* ------------------------------------------------------------ Python values
StrV(chars)  == [k |-> "str",   txt |-> chars, items |-> <<>>]
NumV(digits) == [k |-> "num",   txt |-> digits, items |-> <<>>]
ListV(items) == [k |-> "list",  txt |-> <<>>,  items |-> items]
TupleV(items) == [k |-> "tuple", txt |-> <<>>, items |-> items]
NoneV        == [k |-> "none",  txt |-> <<>>,  items |-> <<>>]

\* len(v) is defined for lists, tuples and strings; TypeError otherwise
HasLen(v) == v.k \in {"list", "tuple", "str"}
PyLen(v) == IF v.k = "str" THEN Len(v.txt) ELSE Len(v.items)

\* iterating v: the items of a list or tuple, the characters of a string
Iterable(v) == v.k \in {"list", "tuple", "str"}
PyIter(v) ==
    IF v.k = "str" THEN [i \in 1..Len(v.txt) |-> StrV(<<v.txt[i]>>)] ELSE v.items

\* ------------------------------------------------------------ eval (triplet text)
StrTok == {"a", "b"}
WordTok == {"1", "q"}

RECURSIVE SkipWs(_, _)
SkipWs(t, i) == IF i <= Len(t) /\ t[i] = " " THEN SkipWs(t, i + 1) ELSE i

\* first effect met in evaluation order: "name" is any Exception raised while
\* evaluating (NameError, TypeError, IndexError), "exit" is SystemExit
Eff(e1, e2) == IF e1 # "none" THEN e1 ELSE e2

PFail == [ok |-> FALSE, val |-> NoneV, next |-> 0, eff |-> "none"]
POk(v, n, e) == [ok |-> TRUE, val |-> v, next |-> n, eff |-> e]

\* adjacent string literals, with or without whitespace between, concatenate
RECURSIVE StrRun(_, _, _)
StrRun(t, i, acc) ==
    LET j == SkipWs(t, i + 1)
    IN IF j <= Len(t) /\ t[j] \in StrTok
       THEN StrRun(t, j, Append(acc, t[j]))
       ELSE POk(StrV(acc), i + 1, "none")

RECURSIVE WordEnd(_, _)
WordEnd(t, i) == IF i <= Len(t) /\ t[i] \in WordTok THEN WordEnd(t, i + 1) ELSE i

\* a run of digit / letter tokens: a number, an identifier, or a malformed
\* number; an identifier directly followed by "exit()" is a longer identifier
\* that is called, and undefined all the same
ParseWord(t, i) ==
    LET j == WordEnd(t, i)
        w == SubSeq(t, i, j - 1)
    IN IF t[i] = "1"
       THEN IF \A n \in 1..Len(w) : w[n] = "1" THEN POk(NumV(w), j, "none") ELSE PFail
       ELSE IF j <= Len(t) /\ t[j] = "exit()"
            THEN POk(NoneV, j + 1, "name")
            ELSE POk(NoneV, j, "name")

ParseAtom(t, i) ==
    IF t[i] \in StrTok THEN StrRun(t, i, <<t[i]>>)
    ELSE IF t[i] \in WordTok THEN ParseWord(t, i)
    ELSE IF t[i] = "exit()" THEN POk(NoneV, i + 1, "exit")
    ELSE PFail

RECURSIVE ParseValue(_, _)
RECURSIVE ParseItems(_, _, _, _)
RECURSIVE Postfix(_, _)

\* after the item r of a list display: a comma goes on, a bracket closes
ItemsNext(t, acc, eff, r) ==
    LET j == SkipWs(t, r.next)
    IN IF ~r.ok \/ j > Len(t) THEN PFail
       ELSE IF t[j] = ","
            THEN ParseItems(t, SkipWs(t, j + 1), Append(acc, r.val), Eff(eff, r.eff))
       ELSE IF t[j] = "]"
            THEN POk(ListV(Append(acc, r.val)), j + 1, Eff(eff, r.eff))
       ELSE PFail

\* a list display: values separated by commas, a trailing comma allowed
ParseItems(t, i, acc, eff) ==
    IF i > Len(t) THEN PFail
    ELSE IF t[i] = "]" THEN POk(ListV(acc), i + 1, eff)
    ELSE ItemsNext(t, acc, eff, ParseValue(t, i))

ParseValue(t, i) ==
    IF i > Len(t) THEN PFail
    ELSE Postfix(t, IF t[i] = "[" THEN ParseItems(t, SkipWs(t, i + 1), <<>>, "none")
                    ELSE ParseAtom(t, i))

RECURSIVE PrevNonWs(_, _)
PrevNonWs(t, i) == IF i >= 1 /\ t[i] = " " THEN PrevNonWs(t, i - 1) ELSE i

RECURSIVE IntOf(_)
IntOf(digits) ==
    IF digits = <<>> THEN 0
    ELSE 10 * IntOf(SubSeq(digits, 1, Len(digits) - 1)) + 1

\* base[idx]: defined for an integer index inside a list, tuple or string
SubscriptOk(base, idx) ==
    /\ base.k \in {"list", "tuple", "str"}
    /\ idx.k = "num"
    /\ IntOf(idx.txt) < PyLen(base)

Subscript(base, idx) == PyIter(base)[IntOf(idx.txt) + 1]

\* r[s]: the index list s must not be empty; more than one index, or a
\* trailing comma, is a tuple index, which no list or string accepts
Index(t, r, s) ==
    IF ~s.ok \/ s.val.items = <<>> THEN PFail
    ELSE IF /\ Eff(r.eff, s.eff) = "none"
            /\ Len(s.val.items) = 1
            /\ t[PrevNonWs(t, s.next - 2)] # ","
            /\ SubscriptOk(r.val, s.val.items[1])
         THEN POk(Subscript(r.val, s.val.items[1]), s.next, "none")
         ELSE POk(NoneV, s.next, Eff(Eff(r.eff, s.eff), "name"))

\* a value followed by "[" is subscripted
Postfix(t, r) ==
    LET j == SkipWs(t, r.next)
    IN IF ~r.ok THEN PFail
       ELSE IF j > Len(t) \/ t[j] # "[" THEN r
       ELSE Postfix(t, Index(t, r, ParseItems(t, SkipWs(t, j + 1), <<>>, "none")))

\* values separated by commas outside any bracket form a tuple
RECURSIVE ParseTuple(_, _, _, _)

TupleNext(t, acc, eff, r) ==
    LET j == SkipWs(t, r.next)
    IN IF ~r.ok THEN PFail
       ELSE IF j > Len(t) THEN POk(TupleV(Append(acc, r.val)), j, Eff(eff, r.eff))
       ELSE IF t[j] = ","
            THEN ParseTuple(t, SkipWs(t, j + 1), Append(acc, r.val), Eff(eff, r.eff))
       ELSE PFail

ParseTuple(t, i, acc, eff) ==
    IF i > Len(t) THEN POk(TupleV(acc), i, eff)
    ELSE TupleNext(t, acc, eff, ParseValue(t, i))

ParseTop(t) == TupleNext(t, <<>>, "none", ParseValue(t, SkipWs(t, 1)))

\* eval(text): "ok" with the value, "exc" for any Exception (SyntaxError,
\* NameError, TypeError, IndexError), "exit" for SystemExit
EvalOk(v) == [st |-> "ok", val |-> v]
EvalExc   == [st |-> "exc", val |-> NoneV]
EvalExit  == [st |-> "exit", val |-> NoneV]

\* a single value outside any bracket is that value, not a one-element tuple
Outcome(p, single) ==
    IF ~p.ok THEN EvalExc
    ELSE IF p.eff = "name" THEN EvalExc
    ELSE IF p.eff = "exit" THEN EvalExit
    ELSE EvalOk(IF single THEN p.val.items[1] ELSE p.val)

RECURSIVE TopCommas(_, _, _)
TopCommas(t, i, depth) ==
    IF i > Len(t) THEN 0
    ELSE IF t[i] = "[" THEN TopCommas(t, i + 1, depth + 1)
    ELSE IF t[i] = "]" THEN TopCommas(t, i + 1, depth - 1)
    ELSE (IF t[i] = "," /\ depth = 0 THEN 1 ELSE 0) + TopCommas(t, i + 1, depth)

PyEval(t) == Outcome(ParseTop(t), TopCommas(t, 1, 0) = 0)

\* ------------------------------------------------------------ triplet generator
default_triplet == ListV(<<StrV(<<>>), StrV(<<>>), StrV(<<>>)>>)

preprocess_output(output) ==
    ReplaceSeq(
        ReplaceSeq(RemoveTok(RemoveTok(Strip(output), "{"), "}"),
                   <<"]", "]", "]">>, <<"]", "]">>),
        <<"]", "]", ".">>, <<"]", "]">>)

\* list * n
RECURSIVE Repeat(_, _)
Repeat(l, n) == IF n = 0 THEN <<>> ELSE l \o Repeat(l, n - 1)

Returned(v) == [st |-> "ok", val |-> v]
Raised      == [st |-> "raised", val |-> NoneV]
NotReturned == [st |-> "none", val |-> NoneV]

\* lines 136-141, with e the outcome of the second eval: default_triplet * len(result),
\* or default_triplet * 1 when that raises too
Fallback(e) ==
    IF e.st = "exit" THEN Raised
    ELSE IF e.st = "ok" /\ HasLen(e.val)
         THEN Returned(ListV(Repeat(default_triplet.items, PyLen(e.val))))
         ELSE Returned(ListV(Repeat(default_triplet.items, 1)))

\* lines 121-132, with e the outcome of the first eval: len() of every element
\* is taken, and an element of another length gives way to the default triplet
Triplets(e, output) ==
    IF e.st = "exit" THEN Raised
    ELSE IF e.st = "ok" /\ Iterable(e.val)
                        /\ \A i \in 1..PyLen(e.val) : HasLen(PyIter(e.val)[i])
         THEN Returned(ListV([i \in 1..PyLen(e.val) |->
                  IF PyLen(PyIter(e.val)[i]) = 3
                  THEN PyIter(e.val)[i] ELSE default_triplet]))
         ELSE Fallback(PyEval(preprocess_output(output)))

parse_triplet_generation_output(output) ==
    Triplets(PyEval(preprocess_output(output)), output)

\* ------------------------------------------------------------ eval (verdict entry)
FINAL_ANSWER == "[FINAL ANSWER]"
Digits == {"0", "1", "2"}
VWordTok == Digits \cup {"True", "False", "q", "triplet_idx_", "triplet_"}

\* Python ints and bools: a bool is an int (True == 1, False == 0)
IntV(n)  == [t |-> "int", n |-> n]
BoolV(b) == [t |-> "bool", n |-> IF b THEN 1 ELSE 0]

Lexeme(c, n) == [c |-> c, n |-> n]

RECURSIVE VWordEnd(_, _)
VWordEnd(t, i) == IF i <= Len(t) /\ t[i] \in VWordTok THEN VWordEnd(t, i + 1) ELSE i

DigitVal(d) == IF d = "0" THEN 0 ELSE IF d = "1" THEN 1 ELSE 2

RECURSIVE DecimalOf(_)
DecimalOf(w) ==
    IF w = <<>> THEN 0
    ELSE 10 * DecimalOf(SubSeq(w, 1, Len(w) - 1)) + DigitVal(w[Len(w)])

\* a run of digit / letter tokens is one word: a decimal literal (no leading
\* zero unless it is zero), True, False, an identifier, or a malformed number
ClassifyWord(w) ==
    IF \A n \in 1..Len(w) : w[n] \in Digits
    THEN IF Len(w) > 1 /\ w[1] = "0" /\ DecimalOf(w) # 0
         THEN Lexeme("bad", 0) ELSE Lexeme("num", DecimalOf(w))
    ELSE IF w[1] \in Digits THEN Lexeme("bad", 0)
    ELSE IF w = <<"True">> THEN Lexeme("bool", 1)
    ELSE IF w = <<"False">> THEN Lexeme("bool", 0)
    ELSE Lexeme("name", 0)

RECURSIVE Lex(_, _)
Lex(t, i) ==
    IF i > Len(t) THEN <<>>
    ELSE IF t[i] = " " THEN Lex(t, i + 1)
    ELSE IF t[i] = "-" THEN <<Lexeme("minus", 0)>> \o Lex(t, i + 1)
    ELSE IF t[i] = ":" THEN <<Lexeme("colon", 0)>> \o Lex(t, i + 1)
    ELSE IF t[i] = "exit()" THEN <<Lexeme("exit", 0)>> \o Lex(t, i + 1)
    ELSE IF t[i] \in VWordTok
         THEN LET j == VWordEnd(t, i)
                  l == ClassifyWord(SubSeq(t, i, j - 1))
              IN IF l.c \in {"name", "bool"} /\ j <= Len(t) /\ t[j] = "exit()"
                 THEN <<Lexeme("name", 0)>> \o Lex(t, j + 1)
                 ELSE <<l>> \o Lex(t, j)
    ELSE <<Lexeme("bad", 0)>> \o Lex(t, i + 1)

IsAtom(l) == l.c \in {"num", "bool", "name", "exit"}

\* expr ::= unary ("-" unary)* ; unary ::= "-" unary | atom
\* expect = TRUE: an operand is due; FALSE: an operator or the end is due
RECURSIVE ExprVal(_, _, _, _, _)
ExprVal(ls, i, sign, acc, expect) ==
    IF i > Len(ls) THEN [ok |-> ~expect, n |-> acc]
    ELSE IF ls[i].c = "minus"
         THEN ExprVal(ls, i + 1, IF expect THEN -sign ELSE -1, acc, TRUE)
    ELSE IF IsAtom(ls[i]) /\ expect
         THEN ExprVal(ls, i + 1, 1, acc + sign * ls[i].n, FALSE)
    ELSE [ok |-> FALSE, n |-> 0]

ExprResult(ls, r) ==
    [ok |-> r.ok,
     v  |-> IF Len(ls) = 1 /\ ls[1].c = "bool" THEN BoolV(ls[1].n = 1) ELSE IntV(r.n)]

ExprOf(ls) == ExprResult(ls, ExprVal(ls, 1, 1, 0, TRUE))

Colons(ls) == {i \in 1..Len(ls) : ls[i].c = "colon"}

\* the first name or call met when the entry is evaluated, key before value
FirstEffect(ls) ==
    LET E == {i \in 1..Len(ls) : ls[i].c \in {"name", "exit"}}
    IN IF E = {} THEN "none"
       ELSE ls[CHOOSE i \in E : \A j \in E : i <= j].c

EntryOk(kind, key, val) ==
    [ok |-> TRUE, st |-> "ok", kind |-> kind, key |-> key, val |-> val]
EntryExc ==
    [ok |-> TRUE, st |-> "exc", kind |-> "none", key |-> IntV(0), val |-> IntV(0)]
EntryExit ==
    [ok |-> TRUE, st |-> "exit", kind |-> "none", key |-> IntV(0), val |-> IntV(0)]

Effect(ls, e) ==
    IF ~e.ok THEN EntryExc
    ELSE IF FirstEffect(ls) = "name" THEN EntryExc
    ELSE IF FirstEffect(ls) = "exit" THEN EntryExit
    ELSE e

SetDisplay(e) == [ok |-> e.ok, st |-> "ok", kind |-> "set", key |-> e.v, val |-> e.v]
DictDisplay(k, v) ==
    [ok |-> k.ok /\ v.ok, st |-> "ok", kind |-> "dict", key |-> k.v, val |-> v.v]

\* the lexemes between the braces: nothing is the empty dict, one expression
\* is a set display, key : value is a dict display
EvalLexemes(ls, cs) ==
    IF \E i \in 1..Len(ls) : ls[i].c = "bad" THEN EntryExc
    ELSE IF ls = <<>> THEN EntryOk("empty", IntV(0), IntV(0))
    ELSE IF Cardinality(cs) > 1 THEN EntryExc
    ELSE IF cs = {} THEN Effect(ls, SetDisplay(ExprOf(ls)))
    ELSE Effect(ls, DictDisplay(ExprOf(SubSeq(ls, 1, (CHOOSE i \in cs : TRUE) - 1)),
                                ExprOf(SubSeq(ls, (CHOOSE i \in cs : TRUE) + 1, Len(ls)))))

\* eval("{" + text + "}")
EvalEntry(t) == EvalLexemes(Lex(t, 1), Colons(Lex(t, 1)))

\* ------------------------------------------------------------ verdict parsers
\* str.replace(old, new) for single tokens
ReplaceTok(t, old, new) == [i \in 1..Len(t) |-> IF t[i] = old THEN new ELSE t[i]]

\* str.split(sep): the pieces between occurrences of sep, empty pieces kept
RECURSIVE SplitAcc(_, _, _)
SplitAcc(t, sep, cur) ==
    IF t = <<>> THEN <<cur>>
    ELSE IF Head(t) = sep THEN <<cur>> \o SplitAcc(Tail(t), sep, <<>>)
    ELSE SplitAcc(Tail(t), sep, Append(cur, Head(t)))

Split(t, sep) == SplitAcc(t, sep, <<>>)

\* a dict keyed by int value; the key object first inserted is the one kept
EmptyMap == <<>>

DictUpdate(d, key, val) ==
    [n \in DOMAIN d \cup {key.n} |->
        IF n = key.n
        THEN [key |-> IF n \in DOMAIN d THEN d[n].key ELSE key, val |-> val]
        ELSE d[n]]

FcReturned(d) == [st |-> "ok", val |-> d]
FcRaised      == [st |-> "raised", val |-> EmptyMap]
FcNotReturned == [st |-> "none", val |-> EmptyMap]

\* match_output.update(e) inside try / except Exception, e the outcome of
\* eval: updating from a set of ints is a TypeError, SystemExit passes the handler
Update(acc, e) ==
    IF acc.st = "raised" THEN acc
    ELSE IF e.st = "exit" THEN FcRaised
    ELSE IF e.st = "ok" /\ e.kind = "dict"
         THEN FcReturned(DictUpdate(acc.val, e.key, e.val))
    ELSE acc

\* faulty variant of the loop body: only the leading hyphens are dropped
UpdateEntry_lstrip(acc, token) == Update(acc, EvalEntry(LStripTok(token, "-")))

\* one pass of the loop body: eval("{" + token.replace("-", "") + "}")
UpdateEntry(acc, token) == Update(acc, EvalEntry(RemoveTok(token, "-")))

RECURSIVE UpdateAll(_, _)
UpdateAll(acc, tokens) ==
    IF tokens = <<>> THEN acc
    ELSE UpdateAll(UpdateEntry(acc, Head(tokens)), Tail(tokens))

parse_triplet_comparison_output(string_output) ==
    UpdateAll(FcReturned(EmptyMap), Split(ReplaceTok(string_output, "\n", ","), ","))

\* faulty variant of the inquiry parser: the label triplet_ is left in place
parse_triplet_comparison_inquiry_output_labelled(string_output) ==
    LET parts == Split(string_output, FINAL_ANSWER)
        fact_check_result_part == parts[Len(parts)]
    IN UpdateAll(FcReturned(EmptyMap),
                 Split(RemoveTok(ReplaceTok(fact_check_result_part, "\n", ","),
                                 "triplet_idx_"), ","))

\* faulty variant of the inquiry parser: the part that follows the first
\* delimiter, up to the next one, is taken
parse_triplet_comparison_inquiry_output_second(string_output) ==
    LET parts == Split(string_output, FINAL_ANSWER)
        fact_check_result_part == parts[IF Len(parts) > 1 THEN 2 ELSE 1]
    IN UpdateAll(FcReturned(EmptyMap),
                 Split(RemoveTok(RemoveTok(ReplaceTok(fact_check_result_part, "\n", ","),
                                           "triplet_idx_"), "triplet_"), ","))

parse_triplet_comparison_inquiry_output(string_output) ==
    LET parts == Split(string_output, FINAL_ANSWER)
        fact_check_result_part == parts[Len(parts)]
    IN UpdateAll(FcReturned(EmptyMap),
                 Split(RemoveTok(RemoveTok(ReplaceTok(fact_check_result_part, "\n", ","),
                                           "triplet_idx_"), "triplet_"), ","))

\* ------------------------------------------------------------ json.loads
NON_HALLUCINATED_ANSWER == "non_hallucinated_answer"
HALLUCINATED_ANSWER == "hallucinated_answer"
HALLUCINATED_DETAILS == "hallucinated_details"

\* tokens that are JSON string literals; the other tokens of a JSON text are
\* the punctuation, the digit "5", null, the blank and the bare word "q"
JStrTok == {NON_HALLUCINATED_ANSWER, HALLUCINATED_ANSWER, HALLUCINATED_DETAILS,
            "A", "B", " A ", "x", "y", "xy", ""}

\* the characters of a string literal (a field name counts as one character)
CharsOf(tok) ==
    IF tok = " A " THEN <<" ", "A", " ">>
    ELSE IF tok = "xy" THEN <<"x", "y">>
    ELSE IF tok = "" THEN <<>>
    ELSE <<tok>>

DictV(pairs) == [k |-> "dict", txt |-> <<>>, items |-> pairs]

RECURSIVE JNumEnd(_, _)
JNumEnd(t, i) == IF i <= Len(t) /\ t[i] = "5" THEN JNumEnd(t, i + 1) ELSE i

RECURSIVE JValue(_, _)
RECURSIVE JElems(_, _, _, _)
RECURSIVE JMembers(_, _, _, _)

\* after the element r of an array: no comma may precede the closing bracket
JElemsNext(t, acc, r) ==
    LET j == SkipWs(t, r.next)
    IN IF ~r.ok \/ j > Len(t) THEN PFail
       ELSE IF t[j] = "," THEN JElems(t, SkipWs(t, j + 1), Append(acc, r.val), FALSE)
       ELSE IF t[j] = "]" THEN POk(ListV(Append(acc, r.val)), j + 1, "none")
       ELSE PFail

JElems(t, i, acc, first) ==
    IF i > Len(t) THEN PFail
    ELSE IF t[i] = "]" /\ first THEN POk(ListV(acc), i + 1, "none")
    ELSE JElemsNext(t, acc, JValue(t, i))

\* after the value r of the member named key
JMembersNext(t, acc, key, r) ==
    LET j == SkipWs(t, r.next)
        pair == ListV(<<StrV(CharsOf(key)), r.val>>)
    IN IF ~r.ok \/ j > Len(t) THEN PFail
       ELSE IF t[j] = "," THEN JMembers(t, SkipWs(t, j + 1), Append(acc, pair), FALSE)
       ELSE IF t[j] = "}" THEN POk(DictV(Append(acc, pair)), j + 1, "none")
       ELSE PFail

\* the members of an object: "name" : value, separated by commas
JMembers(t, i, acc, first) ==
    IF i > Len(t) THEN PFail
    ELSE IF t[i] = "}" /\ first THEN POk(DictV(acc), i + 1, "none")
    ELSE IF t[i] \notin JStrTok THEN PFail
    ELSE LET c == SkipWs(t, i + 1)
         IN IF c > Len(t) \/ t[c] # ":" THEN PFail
            ELSE JMembersNext(t, acc, t[i], JValue(t, SkipWs(t, c + 1)))

JValue(t, i) ==
    IF i > Len(t) THEN PFail
    ELSE IF t[i] = "{" THEN JMembers(t, SkipWs(t, i + 1), <<>>, TRUE)
    ELSE IF t[i] = "[" THEN JElems(t, SkipWs(t, i + 1), <<>>, TRUE)
    ELSE IF t[i] \in JStrTok THEN POk(StrV(CharsOf(t[i])), i + 1, "none")
    ELSE IF t[i] = "5" THEN POk(NumV(SubSeq(t, i, JNumEnd(t, i) - 1)), JNumEnd(t, i), "none")
    ELSE IF t[i] = "null" THEN POk(NoneV, i + 1, "none")
    ELSE PFail

\* one value, blanks around it, and nothing else ("Extra data" otherwise)
JWhole(t, r) == IF r.ok /\ SkipWs(t, r.next) > Len(t) THEN EvalOk(r.val) ELSE EvalExc

json_loads(t) == JWhole(t, JValue(t, SkipWs(t, 1)))

\* ------------------------------------------------------------ hallucination parser
\* dict.get(key, default): the value of the last member of that name
DictGet(d, key, default) ==
    LET hits == {i \in 1..Len(d.items) : d.items[i].items[1].txt = <<key>>}
    IN IF hits = {} THEN default
       ELSE d.items[CHOOSE i \in hits : \A j \in hits : j <= i].items[2]

\* bool(v): None, zero, and empty strings, lists and dicts are falsy
Truthy(v) ==
    IF v.k \in {"str"} THEN v.txt # <<>>
    ELSE IF v.k \in {"list", "tuple", "dict"} THEN v.items # <<>>
    ELSE v.k = "num"

\* what " ".join(v) iterates: the items of a list, the characters of a string,
\* the keys of a dict
JoinItems(v) ==
    IF v.k = "dict" THEN [i \in 1..Len(v.items) |-> v.items[i].items[1]]
    ELSE PyIter(v)

\* " ".join(v) is defined when v is iterable and every item is a string
Joinable(v) ==
    /\ v.k \in {"list", "str", "dict"}
    /\ \A i \in 1..Len(JoinItems(v)) : JoinItems(v)[i].k = "str"

SpaceJoin(v) == Join([i \in 1..Len(JoinItems(v)) |-> JoinItems(v)[i].txt], <<" ">>)

EmptyRecord == <<<<>>, <<>>, <<>>>>

\* lines 180-185 on the decoded value: .get needs a dict, .strip a string
Fields(data) ==
    IF data.k # "dict" THEN EmptyRecord
    ELSE LET non == DictGet(data, NON_HALLUCINATED_ANSWER, StrV(<<>>))
             hal == DictGet(data, HALLUCINATED_ANSWER, StrV(<<>>))
             det == DictGet(data, HALLUCINATED_DETAILS, ListV(<<>>))
         IN IF non.k # "str" \/ hal.k # "str" THEN EmptyRecord
            ELSE IF ~Truthy(det) THEN <<Strip(non.txt), Strip(hal.txt), <<>>>>
            ELSE IF ~Joinable(det) THEN EmptyRecord
            ELSE <<Strip(non.txt), Strip(hal.txt), SpaceJoin(det)>>

\* lines 176-203: every exception of the try block ends in three empty strings
Decoded(e) == IF e.st = "ok" THEN Fields(e.val) ELSE EmptyRecord

parse_hlcntn_data_generation_output(output) == Decoded(json_loads(Strip(output)))

HgNotReturned ==
    [st |-> "none",
     val |-> [generated_non_hlcntn_answer |-> <<>>, generated_hlcntn_answer |-> <<>>,
              hlcntn_part |-> <<>>]]

\* faulty variant of the output's construction: the two answers change places
HallucinationDataGeneratorOutput_swapped(parsed) ==
    [generated_non_hlcntn_answer |-> parsed[2],
     generated_hlcntn_answer |-> parsed[1],
     hlcntn_part |-> parsed[3]]

\* lines 147-157: the parser's tuple, unpacked into the output's fields
HallucinationDataGeneratorOutput(parsed) ==
    [generated_non_hlcntn_answer |-> parsed[1],
     generated_hlcntn_answer |-> parsed[2],
     hlcntn_part |-> parsed[3]]

\* ------------------------------------------------------------ model outputs
StrAt(i) == IF i % 2 = 1 THEN "a" ELSE "b"

InnerLists ==
    {[i \in 1..n |-> StrAt(i + o)] : n \in 0..MaxInner, o \in 0..1}

RenderInner(l) == <<"[">> \o Join([i \in 1..Len(l) |-> <<l[i]>>], <<",">>) \o <<"]">>

ElemTexts == {RenderInner(l) : l \in InnerLists} \cup {<<"1">>, <<"q">>, <<"exit()">>}

RenderList(es) == <<"[">> \o Join(es, <<",">>) \o <<"]">>

Prefixes == {<<>>, <<" ">>, <<"{">>}
Suffixes == {<<>>, <<" ">>, <<"}">>, <<"]">>, <<".">>}

JunkTok == {"[", "]", ",", "a", "1", "q", "exit()", " ", "{", "}"}

TripletTexts ==
    {p \o RenderList(es) \o s :
        p \in Prefixes, es \in SeqsUpTo(ElemTexts, MaxElems), s \in Suffixes}
    \cup SeqsUpTo(JunkTok, MaxJunk)

\* ---- responses of the comparison model
WellFormed(k, v) == <<k, ":", v>>

IdxDigits == {d \in Digits : DigitVal(d) <= MaxIdx}

Entries ==
    {WellFormed(k, v) : k \in IdxDigits, v \in {"True", "False"}}
    \cup { <<"-", "1", ":", "False">>,                 \* bulleted entry
           <<"1", "-", "0", ":", "True">>,             \* hyphen inside the index
           <<" ", "1", " ", ":", " ", "True">>,        \* blanks around the parts
           <<"triplet_idx_", "0", ":", "True">>,       \* index label
           <<"triplet_", "1", ":", "False">>,
           <<"q", "-", "q">>,                          \* not a pair
           <<"0", ":", "2">>,                          \* value that is no boolean
           <<"True", ":", "False">>,                   \* boolean as the index
           <<"1">>,                                    \* index alone
           <<"exit()">>,                               \* a call
           <<>> }

Seps == {<<",">>, <<"\n">>}

Reasonings == {<<>>, <<"q", FINAL_ANSWER>>}

Listings ==
    {r \o Join(es, sep) : r \in Reasonings, es \in SeqsUpTo(Entries, MaxToks), sep \in Seps}

Parts ==
    { <<>>, <<"0", ":", "True">>, <<"1", ":", "False">>,
      <<",", "0", ":", "False", ",">> }

Delimited ==
    {Join(ps, <<FINAL_ANSWER>>) : ps \in SeqsUpTo(Parts, MaxDelims + 1)}

\* an index judged twice, and then possibly named once more by a token that is
\* no index:boolean pair
RepeatTails(k) ==
    {<<>>, << <<k, ":", "2">> >>, << <<"True", ":", "False">> >>, << <<"q">> >>}

Repeated ==
    UNION {{r \o Join(<<WellFormed(k, v1), WellFormed(k, v2)>> \o more, <<",">>) :
               r \in Reasonings, v1 \in {"True", "False"}, v2 \in {"True", "False"},
               more \in RepeatTails(k)} : k \in IdxDigits}

ParserResponses == Listings \cup Delimited \cup Repeated

SmallResponses ==
    { <<"0", ":", "True">>, <<"0", ":", "False">>, <<"1", ":", "True">>,
      <<"0", ":", "True", ",", "1", ":", "False">>,
      <<"0", ":", "False", "\n", "-", "1", ":", "True">>,
      <<"q">>,
      <<"exit()">>,
      <<"q", FINAL_ANSWER, "0", ":", "True">> }

\* ---- responses of the hallucination model
JField(name, value) == <<name, ":">> \o value

RenderArray(l) == <<"[">> \o Join([i \in 1..Len(l) |-> <<l[i]>>], <<",">>) \o <<"]">>

Absent == <<>>

NonOptions == {Absent} \cup {JField(NON_HALLUCINATED_ANSWER, v) : v \in {<<"A">>, <<" A ">>, <<"5">>}}
HalOptions == {Absent} \cup {JField(HALLUCINATED_ANSWER, v) : v \in {<<"B">>, <<"null">>}}
DetailOptions ==
    {Absent} \cup
    {JField(HALLUCINATED_DETAILS, v) :
        v \in {RenderArray(l) : l \in SeqsUpTo({"x", "y"}, MaxDetails)}
              \cup {<<"xy">>, <<"5">>, <<"[", "5", "]">>}}

RenderObject(fields) ==
    <<"{">> \o Join(SelectSeq(fields, LAMBDA f : f # Absent), <<",">>) \o <<"}">>

Objects == {RenderObject(<<n, h, d>>) : n \in NonOptions, h \in HalOptions, d \in DetailOptions}

JJunkTok == {"{", "}", "[", "]", ",", ":", "A", "5", "null", "q", " "}

JsonTexts ==
    Objects
    \cup {<<" ">> \o o \o <<" ">> : o \in Objects}         \* blanks around
    \cup {SubSeq(o, 1, Len(o) - 1) : o \in Objects}        \* cut short
    \cup {o \o <<"q">> : o \in Objects}                    \* text after the object
    \cup SeqsUpTo(JJunkTok, MaxJunk)

\* ------------------------------------------------------------ fact checker
\* multishot_triplet_comparison_input_formatter: each triplet prefixed by its
\* 0-based position, joined with "\n-"
Indexed(triplets) == [i \in 1..Len(triplets) |-> [idx |-> i - 1, triplet |-> triplets[i]]]

multishot_triplet_comparison_input_formatter(answers, references) ==
    [answer_triplets |-> Indexed(answers), reference_triplets |-> Indexed(references)]

PromptOf(template, input) ==
    [template |-> template,
     answer_triplets |-> input.answer_triplets,
     reference_triplets |-> input.reference_triplets]

get_model_prompt(answers, references) ==
    PromptOf("n_shot_triplet_match_test",
             multishot_triplet_comparison_input_formatter(answers, references))

get_inquiry_model_prompt(answers, references) ==
    PromptOf("n_shot_triplet_match_test_inquiry",
             multishot_triplet_comparison_input_formatter(answers, references))

NoPrompt == PromptOf("none", [answer_triplets |-> <<>>, reference_triplets |-> <<>>])

\* FactChecker.flatten_triplets: the segments' triplets in one list, in order
flatten_triplets(segments) == Concat(segments)

\* FactChecker.merge_segment_outputs: an index is supported when any segment
\* judged it supported (logical OR over the segments' maps)
PyOr(a, b) == IF a.n # 0 THEN a ELSE b

MergeInto(acc, m) ==
    [n \in DOMAIN acc \cup DOMAIN m |->
        IF n \notin DOMAIN m THEN acc[n]
        ELSE IF n \notin DOMAIN acc THEN [key |-> m[n].key, val |-> PyOr(BoolV(FALSE), m[n].val)]
        ELSE [key |-> acc[n].key, val |-> PyOr(acc[n].val, m[n].val)]]

RECURSIVE MergeFrom(_, _)
MergeFrom(acc, outputs) ==
    IF outputs = <<>> THEN acc ELSE MergeFrom(MergeInto(acc, Head(outputs)), Tail(outputs))

merge_segment_outputs(outputs) == MergeFrom(EmptyMap, outputs)

\* ------------------------------------------------------------ inputs of a check
AnswerLists == {[i \in 1..n |-> i] : n \in 0..MaxAnswers}

\* segment k holds the reference triplets 2k-1 and 2k
Segment(k) == <<2 * k - 1, 2 * k>>
ReferenceLists == {[k \in 1..n |-> Segment(k)] : n \in 0..MaxSegs}

\* The responses explored: every response of ParserResponses for a non-split
\* check of MaxAnswers triplets against one segment, the responses of
\* SmallResponses for every other configuration.
ResponsesFor(sp, answers, references) ==
    IF ~sp /\ Len(answers) = MaxAnswers /\ Len(references) = 1
    THEN ParserResponses ELSE SmallResponses

\* ------------------------------------------------------------ forward
InitTG ==
    /\ comp = "tg"
    /\ split = FALSE /\ inquiry = FALSE
    /\ answer_triplets = <<>> /\ reference_triplets = <<>>

InitFC ==
    /\ comp = "fc"
    /\ split \in BOOLEAN /\ inquiry \in BOOLEAN
    /\ answer_triplets \in AnswerLists
    /\ reference_triplets \in ReferenceLists

InitHG ==
    /\ comp = "hg"
    /\ split = FALSE /\ inquiry = FALSE
    /\ answer_triplets = <<>> /\ reference_triplets = <<>>

Init ==
    /\ InitTG \/ InitFC \/ InitHG
    /\ pc = IF comp = "fc" THEN "forward" ELSE "start"
    /\ calls = 0
    /\ failed = FALSE
    /\ raw = <<>>
    /\ tg_result = NotReturned
    /\ seg = 1
    /\ output_list = <<>>
    /\ prompt = NoPrompt
    /\ parser = "none"
    /\ fc_result = FcNotReturned
    /\ hg_result = HgNotReturned

\* llm_multishot_triplet_generator.py:55-56: the prompt is built, the model is
\* invoked and returns text
TG_Invoke ==
    /\ comp = "tg" /\ pc = "start"
    /\ \E text \in TripletTexts : raw' = text
    /\ calls' = calls + 1
    /\ pc' = "parse"
    /\ failed' = FALSE
    /\ UNCHANGED <<comp, tgvars, fcvars, hgvars>>

\* the invocation raises its terminal error: nothing in forward catches it
TG_InvokeFails ==
    /\ comp = "tg" /\ pc = "start"
    /\ calls' = calls + 1
    /\ pc' = "invoke_raised"
    /\ failed' = TRUE
    /\ UNCHANGED <<comp, raw, tgvars, fcvars, hgvars>>

\* llm_multishot_triplet_generator.py:60-62
TG_Parse ==
    /\ comp = "tg" /\ pc = "parse"
    /\ tg_result' = parse_triplet_generation_output(raw)
    /\ pc' = IF tg_result'.st = "raised" THEN "parse_raised" ELSE "done"
    /\ UNCHANGED <<comp, calls, failed, raw, fcvars, hgvars>>

\* faulty variant of the non-split branch: the prompt is built from the first
\* segment alone
FC_Prompt_first_segment ==
    /\ comp = "fc" /\ pc = "forward"
    /\ split => seg <= Len(reference_triplets)
    /\ LET ref == IF split THEN reference_triplets[seg]
                  ELSE IF reference_triplets = <<>> THEN <<>>
                  ELSE reference_triplets[1]
       IN prompt' = IF inquiry THEN get_inquiry_model_prompt(answer_triplets, ref)
                    ELSE get_model_prompt(answer_triplets, ref)
    /\ pc' = "invoke"
    /\ UNCHANGED <<comp, calls, failed, raw, tgvars, hgvars, split, inquiry, answer_triplets,
                   reference_triplets, seg, output_list, parser, fc_result>>

\* faulty variant of the loop over the segments: the segments are taken from
\* the last to the first
FC_Prompt_reversed ==
    /\ comp = "fc" /\ pc = "forward"
    /\ split => seg <= Len(reference_triplets)
    /\ LET ref == IF split THEN reference_triplets[Len(reference_triplets) - seg + 1]
                  ELSE flatten_triplets(reference_triplets)
       IN prompt' = IF inquiry THEN get_inquiry_model_prompt(answer_triplets, ref)
                    ELSE get_model_prompt(answer_triplets, ref)
    /\ pc' = "invoke"
    /\ UNCHANGED <<comp, calls, failed, raw, tgvars, hgvars, split, inquiry, answer_triplets,
                   reference_triplets, seg, output_list, parser, fc_result>>

\* llm_multishot_fact_checker.py:64-66 / 84 and 96-106: the reference of this
\* comparison is the next segment (split) or the flattened segments, and the
\* prompt is built from the template inquiry_mode selects
FC_Prompt ==
    /\ comp = "fc" /\ pc = "forward"
    /\ split => seg <= Len(reference_triplets)
    /\ LET ref == IF split THEN reference_triplets[seg]
                  ELSE flatten_triplets(reference_triplets)
       IN prompt' = IF inquiry THEN get_inquiry_model_prompt(answer_triplets, ref)
                    ELSE get_model_prompt(answer_triplets, ref)
    /\ pc' = "invoke"
    /\ UNCHANGED <<comp, calls, failed, raw, tgvars, hgvars, split, inquiry, answer_triplets,
                   reference_triplets, seg, output_list, parser, fc_result>>

\* llm_multishot_fact_checker.py:108
FC_Invoke ==
    /\ comp = "fc" /\ pc = "invoke"
    /\ \E text \in ResponsesFor(split, answer_triplets, reference_triplets) : raw' = text
    /\ calls' = calls + 1
    /\ pc' = "parse"
    /\ failed' = FALSE
    /\ UNCHANGED <<comp, tgvars, fcvars, hgvars>>

\* faulty variant of a failing invocation: the error is caught and an empty
\* verdict map is returned in its place
FC_InvokeFails_masked ==
    /\ comp = "fc" /\ pc = "invoke"
    /\ calls' = calls + 1
    /\ pc' = "done"
    /\ failed' = TRUE
    /\ fc_result' = FcReturned(EmptyMap)
    /\ UNCHANGED <<comp, raw, tgvars, hgvars, split, inquiry, answer_triplets,
                   reference_triplets, seg, output_list, prompt, parser>>

\* the invocation raises its terminal error: neither model_forward nor forward
\* catches it
FC_InvokeFails ==
    /\ comp = "fc" /\ pc = "invoke"
    /\ calls' = calls + 1
    /\ pc' = "invoke_raised"
    /\ failed' = TRUE
    /\ UNCHANGED <<comp, raw, tgvars, fcvars, hgvars>>

\* faulty variant of the parser's choice: the plain parser in every mode
FC_Parse_plain ==
    /\ comp = "fc" /\ pc = "parse"
    /\ parser' = "parse_triplet_comparison_output"
    /\ LET out == parse_triplet_comparison_output(raw)
       IN IF out.st = "raised"
          THEN /\ pc' = "parse_raised"
               /\ UNCHANGED <<seg, output_list, fc_result>>
          ELSE IF split
          THEN /\ output_list' = Append(output_list, out.val)
               /\ seg' = seg + 1
               /\ pc' = "forward"
               /\ UNCHANGED fc_result
          ELSE /\ fc_result' = out
               /\ pc' = "done"
               /\ UNCHANGED <<seg, output_list>>
    /\ UNCHANGED <<comp, calls, failed, raw, tgvars, hgvars, split, inquiry, answer_triplets,
                   reference_triplets, prompt>>

\* llm_multishot_fact_checker.py:114-125, then 81 (split) or 85 (non-split)
FC_Parse ==
    /\ comp = "fc" /\ pc = "parse"
    /\ parser' = IF inquiry THEN "parse_triplet_comparison_inquiry_output"
                 ELSE "parse_triplet_comparison_output"
    /\ LET out == IF inquiry THEN parse_triplet_comparison_inquiry_output(raw)
                  ELSE parse_triplet_comparison_output(raw)
       IN IF out.st = "raised"
          THEN /\ pc' = "parse_raised"
               /\ UNCHANGED <<seg, output_list, fc_result>>
          ELSE IF split
          THEN /\ output_list' = Append(output_list, out.val)
               /\ seg' = seg + 1
               /\ pc' = "forward"
               /\ UNCHANGED fc_result
          ELSE /\ fc_result' = out
               /\ pc' = "done"
               /\ UNCHANGED <<seg, output_list>>
    /\ UNCHANGED <<comp, calls, failed, raw, tgvars, hgvars, split, inquiry, answer_triplets,
                   reference_triplets, prompt>>

\* faulty variant of the return of the loop: the last segment's map is returned
FC_Merge_last ==
    /\ comp = "fc" /\ pc = "forward"
    /\ split /\ seg > Len(reference_triplets)
    /\ fc_result' = FcReturned(IF output_list = <<>> THEN EmptyMap
                               ELSE output_list[Len(output_list)])
    /\ pc' = "done"
    /\ UNCHANGED <<comp, calls, failed, raw, tgvars, hgvars, split, inquiry, answer_triplets,
                   reference_triplets, seg, output_list, prompt, parser>>

\* llm_multishot_fact_checker.py:82: the loop is over, the outputs are merged
FC_Merge ==
    /\ comp = "fc" /\ pc = "forward"
    /\ split /\ seg > Len(reference_triplets)
    /\ fc_result' = FcReturned(merge_segment_outputs(output_list))
    /\ pc' = "done"
    /\ UNCHANGED <<comp, calls, failed, raw, tgvars, hgvars, split, inquiry, answer_triplets,
                   reference_triplets, seg, output_list, prompt, parser>>

\* llm_hallucination_data_generator.py:102-145: the prompt is built, the
\* completion is requested and its content taken
HG_Invoke ==
    /\ comp = "hg" /\ pc = "start"
    /\ \E text \in JsonTexts : raw' = text
    /\ calls' = calls + 1
    /\ pc' = "parse"
    /\ failed' = FALSE
    /\ UNCHANGED <<comp, tgvars, fcvars, hgvars>>

\* the completion request raises: nothing in generate_hlcntn_data catches it
HG_InvokeFails ==
    /\ comp = "hg" /\ pc = "start"
    /\ calls' = calls + 1
    /\ pc' = "invoke_raised"
    /\ failed' = TRUE
    /\ UNCHANGED <<comp, raw, tgvars, fcvars, hgvars>>

\* llm_hallucination_data_generator.py:147-157
HG_Parse ==
    /\ comp = "hg" /\ pc = "parse"
    /\ hg_result' = [st |-> "ok",
                     val |-> HallucinationDataGeneratorOutput(
                                 parse_hlcntn_data_generation_output(raw))]
    /\ pc' = "done"
    /\ UNCHANGED <<comp, calls, failed, raw, tgvars, fcvars>>

Next ==
    \/ TG_Invoke \/ TG_InvokeFails \/ TG_Parse
    \/ FC_Prompt \/ FC_Invoke \/ FC_InvokeFails \/ FC_Parse \/ FC_Merge
    \/ HG_Invoke \/ HG_InvokeFails \/ HG_Parse

Spec == Init /\ [][Next]_vars

\* ================================================================ properties
\* ------------------------------------------------------------ vocabulary
\* the value the first eval of the triplet parser yields on the model output
Parsed == PyEval(preprocess_output(raw))

TripletParseOver == comp = "tg" /\ pc \in {"done", "parse_raised"}

\* a value of three components
IsTriplet(v) == HasLen(v) /\ PyLen(v) = 3

\* the positions of the delimiter in a text, and the text after one of them
DelimsAt(t) == {i \in 1..Len(t) : t[i] = FINAL_ANSWER}
After(t, i) == SubSeq(t, i + 1, Len(t))
AfterFirst(t) == After(t, CHOOSE i \in DelimsAt(t) : \A j \in DelimsAt(t) : i <= j)
AfterLast(t) == After(t, CHOOSE i \in DelimsAt(t) : \A j \in DelimsAt(t) : j <= i)

RemoveNoise(t) == RemoveTok(RemoveTok(t, "triplet_idx_"), "triplet_")

\* the tokens of a verdict listing: the pieces between commas and newlines
RECURSIVE Pieces(_, _)
Pieces(t, cur) ==
    IF t = <<>> THEN <<cur>>
    ELSE IF Head(t) \in {",", "\n"} THEN <<cur>> \o Pieces(Tail(t), <<>>)
    ELSE Pieces(Tail(t), Append(cur, Head(t)))

AllHyphensRemoved(token) == RemoveTok(token, "-")
LeadingHyphensRemoved(token) == LStripTok(token, "-")

\* The verdict map a listing denotes when every token is normalised by Norm
\* and read as one entry: the keys are those of the tokens that evaluate to
\* an entry, a key carries the verdict of the last such token, and a token
\* whose evaluation leaves the interpreter makes the whole parse raise.
ExpectedVerdicts(tokens, Norm(_)) ==
    LET ev(i) == EvalEntry(Norm(tokens[i]))
        P == {i \in 1..Len(tokens) : ev(i).st = "ok" /\ ev(i).kind = "dict"}
        At(n) == {i \in P : ev(i).key.n = n}
        First(n) == CHOOSE i \in At(n) : \A j \in At(n) : i <= j
        Last(n) == CHOOSE i \in At(n) : \A j \in At(n) : j <= i
    IN IF \E i \in 1..Len(tokens) : ev(i).st = "exit" THEN FcRaised
       ELSE FcReturned([n \in {ev(i).key.n : i \in P} |->
                           [key |-> ev(First(n)).key, val |-> ev(Last(n)).val]])

\* the outcome of a comparison that is not split: the map, or the raise
SingleOutcome == IF pc = "parse_raised" THEN FcRaised ELSE fc_result

PlainParseOver ==
    comp = "fc" /\ ~split /\ ~inquiry /\ pc \in {"done", "parse_raised"}

InquiryParseOver ==
    comp = "fc" /\ ~split /\ inquiry /\ pc \in {"done", "parse_raised"}
        /\ DelimsAt(raw) # {}

\* a token of the shape index : boolean, leading hyphens aside
WellFormedEntry(token) ==
    LET ls == Lex(LStripTok(token, "-"), 1)
    IN Len(ls) = 3 /\ ls[1].c = "num" /\ ls[2].c = "colon" /\ ls[3].c = "bool"

EntryIndex(token) == Lex(LStripTok(token, "-"), 1)[1].n
EntryVerdict(token) == BoolV(Lex(LStripTok(token, "-"), 1)[3].n = 1)

Verdict(b) == [key |-> IntV(0), val |-> BoolV(b)]

Perms(s) ==
    {[i \in 1..Len(s) |-> s[f[i]]] :
        f \in {g \in [1..Len(s) -> 1..Len(s)] :
                  \A a, b \in 1..Len(s) : g[a] = g[b] => a = b}}

MissingKey(data) ==
    \E key \in {NON_HALLUCINATED_ANSWER, HALLUCINATED_ANSWER, HALLUCINATED_DETAILS} :
        \A i \in 1..Len(data.items) : data.items[i].items[1].txt # <<key>>

\* ------------------------------------------------------------ C1
\* C1: whenever the model output evaluates to a list, the triplet parser
\* returns a list of the same length in which every element of exactly three
\* components stands unchanged at its index and every other element is
\* replaced, at its index, by the default triplet ["", "", ""].
C1_IndexPreservingSubstitution ==
    (TripletParseOver /\ Parsed.st = "ok" /\ Parsed.val.k = "list") =>
        /\ pc = "done"
        /\ tg_result.val.k = "list"
        /\ Len(tg_result.val.items) = Len(Parsed.val.items)
        /\ \A i \in 1..Len(Parsed.val.items) :
               i <= Len(tg_result.val.items) =>
                   tg_result.val.items[i] =
                       IF IsTriplet(Parsed.val.items[i])
                       THEN Parsed.val.items[i] ELSE default_triplet

\* ------------------------------------------------------------ C2
\* C2: for every model output the triplet parser returns without raising, and
\* what it returns is a non-empty list whose every element is a triplet of
\* exactly three components.
C2_NonEmptyListOfTriplets ==
    (comp = "tg" /\ pc \notin {"start", "parse", "invoke_raised"}) =>
        /\ pc = "done"
        /\ tg_result.st = "ok"
        /\ tg_result.val.k = "list"
        /\ tg_result.val.items # <<>>
        /\ \A i \in 1..Len(tg_result.val.items) :
               /\ tg_result.val.items[i].k \in {"list", "tuple"}
               /\ Len(tg_result.val.items[i].items) = 3

\* ------------------------------------------------------------ C3
\* C3: when the normalised model output cannot be evaluated as a literal
\* structure at all (the first attempt and its repetition both fail), the
\* triplet parser returns a list of exactly one element, the default triplet
\* of three empty strings.
C3_TotalFailureGivesOneDefaultTriplet ==
    (TripletParseOver /\ Parsed.st = "exc") =>
        /\ pc = "done"
        /\ tg_result = Returned(ListV(<<default_triplet>>))

\* ------------------------------------------------------------ C4
\* C4: the verdict parser never raises, and every well-formed index:boolean
\* token of the listing, whether before or after a malformed token, has its
\* entry in the returned map (the verdict of the last well-formed token of
\* that index).
C4_MalformedTokensAreSkipped ==
    (comp = "fc" /\ ~split /\ ~inquiry) =>
        /\ pc # "parse_raised"
        /\ pc = "done" =>
             LET tokens == Pieces(raw, <<>>)
                 WF == {i \in 1..Len(tokens) : WellFormedEntry(tokens[i])}
             IN \A i \in WF :
                  /\ EntryIndex(tokens[i]) \in DOMAIN fc_result.val
                  /\ (\A j \in WF : EntryIndex(tokens[j]) = EntryIndex(tokens[i]) => j <= i)
                        => fc_result.val[EntryIndex(tokens[i])].val = EntryVerdict(tokens[i])

\* ------------------------------------------------------------ C5
\* C5: for a check of n answer triplets, the keys of the returned verdict map
\* are integers among 0..n-1 and every value is a boolean.
C5_KeysAreAnswerIndices ==
    (comp = "fc" /\ pc = "done") =>
        \A n \in DOMAIN fc_result.val :
            /\ n \in 0..(Len(answer_triplets) - 1)
            /\ fc_result.val[n].key.t = "int"
            /\ fc_result.val[n].val.t = "bool"

C7_ParsesAfterFirstDelimiter ==
    InquiryParseOver =>
        SingleOutcome = parse_triplet_comparison_output(RemoveNoise(AfterFirst(raw)))

\* C7 (amended): in inquiry mode the text is split at every occurrence of
\* "[FINAL ANSWER]" and only what follows the LAST occurrence is parsed as the
\* verdict listing, once the noise tokens triplet_idx_ and triplet_ are
\* removed; everything before the last occurrence contributes no verdict.
\* "q[FINAL ANSWER]\n0:True" yields {0: True}.
C7_ParsesAfterLastDelimiter ==
    /\ parse_triplet_comparison_inquiry_output(<<"q", FINAL_ANSWER, "\n", "0", ":", "True">>)
           = FcReturned(0 :> Verdict(TRUE))
    /\ InquiryParseOver =>
          SingleOutcome = parse_triplet_comparison_output(RemoveNoise(AfterLast(raw)))

\* an inquiry response with several delimiters has been parsed, and the text
\* after the first delimiter denotes another map than the one returned
C7_SeveralDelimiters ==
    /\ InquiryParseOver /\ pc = "done"
    /\ Cardinality(DelimsAt(raw)) >= 2
    /\ fc_result # parse_triplet_comparison_output(RemoveNoise(AfterFirst(raw)))

\* ------------------------------------------------------------ C8
\* C8 (as stated): the verdict parser treats newlines as commas and strips
\* only the LEADING hyphens of each token: the result is the map built from
\* each token with its leading hyphens removed, hyphens elsewhere are kept.
C8_StripsLeadingHyphensOnly ==
    PlainParseOver =>
        SingleOutcome = ExpectedVerdicts(Pieces(raw, <<>>), LeadingHyphensRemoved)

\* C8 (amended): the verdict parser treats newlines as commas and removes
\* EVERY hyphen of each token, wherever it stands, before reading the token
\* as one entry: the result is the map built from each token with all its
\* hyphens removed, so "0:True,\n-1:False" yields {0: True, 1: False}.
C8_RemovesEveryHyphen ==
    /\ parse_triplet_comparison_output(
           <<"0", ":", "True", ",", "\n", "-", "1", ":", "False">>)
           = FcReturned((0 :> Verdict(TRUE)) @@
                        (1 :> [key |-> IntV(1), val |-> BoolV(FALSE)]))
    /\ PlainParseOver =>
          SingleOutcome = ExpectedVerdicts(Pieces(raw, <<>>), AllHyphensRemoved)

\* a listing with a hyphen inside a token has been parsed, and reading the
\* tokens with only their leading hyphens removed denotes another map
C8_HyphenInsideToken ==
    /\ PlainParseOver /\ pc = "done"
    /\ \E i \in 1..Len(Pieces(raw, <<>>)) :
           "-" \in {LStripTok(Pieces(raw, <<>>)[i], "-")[k] :
                       k \in 1..Len(LStripTok(Pieces(raw, <<>>)[i], "-"))}
    /\ fc_result.val # EmptyMap
    /\ fc_result # ExpectedVerdicts(Pieces(raw, <<>>), LeadingHyphensRemoved)

\* ------------------------------------------------------------ C9
\* C9: when a model invocation of the triplet generator or of the fact
\* checker (non-split, or on any segment of a split check) raises, the error
\* leaves the operation: no triplet list and no verdict map, partial or
\* merged, is returned, no further step is taken, and the invocation that
\* failed was the only one issued for its prompt.
C9_InvocationFailurePropagates ==
    (failed /\ comp \in {"tg", "fc"}) =>
        /\ pc = "invoke_raised"
        /\ tg_result = NotReturned
        /\ fc_result = FcNotReturned
        /\ ~ENABLED Next
        /\ calls = IF comp = "fc" /\ split THEN Len(output_list) + 1 ELSE 1

\* the invocation for the second segment of a split check has raised, after
\* the first segment's map was obtained
C9_SecondSegmentFails ==
    /\ comp = "fc" /\ split /\ failed
    /\ Len(output_list) = 1 /\ output_list[1] # EmptyMap

\* ------------------------------------------------------------ C10
\* C10: when the response is not valid JSON, or any of the keys
\* non_hallucinated_answer, hallucinated_answer, hallucinated_details is
\* missing, the hallucination parser yields three empty strings; it never
\* raises.
C10_DecodeFailureGivesEmptyRecord ==
    (comp = "hg" /\ pc \notin {"start", "parse", "invoke_raised"}) =>
        /\ pc = "done"
        /\ LET e == json_loads(Strip(raw))
           IN (e.st # "ok" \/ e.val.k # "dict" \/ MissingKey(e.val)) =>
                  /\ hg_result.val.generated_non_hlcntn_answer = <<>>
                  /\ hg_result.val.generated_hlcntn_answer = <<>>
                  /\ hg_result.val.hlcntn_part = <<>>

\* ------------------------------------------------------------ C11
\* a response object carrying the three fields in schema order: the answers
\* a and b as strings, the details l as a list of strings
SchemaObject(a, b, l) ==
    RenderObject(<<JField(NON_HALLUCINATED_ANSWER, <<a>>),
                   JField(HALLUCINATED_ANSWER, <<b>>),
                   JField(HALLUCINATED_DETAILS, RenderArray(l))>>)

AnswerToks == {"A", " A ", "B"}
DetailLists == SeqsUpTo({"x", "y"}, MaxDetails)

\* the elements of l in list order with one blank between neighbours
SpaceSeparated(l) == Join([i \in 1..Len(l) |-> CharsOf(l[i])], <<" ">>)

HallucinationParseOver == comp = "hg" /\ pc = "done"

\* C11 (as stated): for a well-formed response the output carries the value
\* of non_hallucinated_answer, the value of hallucinated_answer and the
\* elements of hallucinated_details joined in list order with single spaces,
\* each in the output field of the same meaning.
C11_FieldsCarriedVerbatim ==
    HallucinationParseOver =>
        \A a, b \in AnswerToks, l \in DetailLists :
            Strip(raw) = SchemaObject(a, b, l) =>
                /\ hg_result.val.generated_non_hlcntn_answer = CharsOf(a)
                /\ hg_result.val.generated_hlcntn_answer = CharsOf(b)
                /\ hg_result.val.hlcntn_part = SpaceSeparated(l)

\* C11 (amended): for a well-formed response the output carries the value of
\* non_hallucinated_answer and the value of hallucinated_answer, each with
\* its leading and trailing whitespace removed, and the elements of
\* hallucinated_details joined in list order with single spaces (["x","y"]
\* gives "x y"), each in the output field of the same meaning.
C11_FieldsCarriedStripped ==
    /\ parse_hlcntn_data_generation_output(SchemaObject("A", "B", <<"x", "y">>))
           = <<(<<"A">>), (<<"B">>), (<<"x", " ", "y">>)>>
    /\ HallucinationParseOver =>
          \A a, b \in AnswerToks, l \in DetailLists :
              Strip(raw) = SchemaObject(a, b, l) =>
                  /\ hg_result.val.generated_non_hlcntn_answer = Strip(CharsOf(a))
                  /\ hg_result.val.generated_hlcntn_answer = Strip(CharsOf(b))
                  /\ hg_result.val.hlcntn_part = SpaceSeparated(l)

\* a well-formed response whose first answer has blanks around it and whose
\* details are two fragments has been parsed
C11_PaddedAnswerTwoDetails ==
    /\ HallucinationParseOver
    /\ Strip(raw) = SchemaObject(" A ", "B", <<"x", "y">>)
    /\ hg_result.val.generated_non_hlcntn_answer = <<"A">>
    /\ hg_result.val.generated_hlcntn_answer = <<"B">>
    /\ hg_result.val.hlcntn_part = <<"x", " ", "y">>

\* ------------------------------------------------------------ C12
\* the values a field of the response may carry: an answer is well-formed
\* when it is a string, the details when they are a list of strings
AnswerValues == {<<"A">>, <<" A ">>, <<"B">>, <<"5">>, <<"null">>}
DetailValues ==
    {RenderArray(l) : l \in DetailLists} \cup {<<"xy">>, <<"5">>, <<"[", "5", "]">>}

GoodAnswer(v) == v[1] \in JStrTok
GoodDetails(v) == \E l \in DetailLists : v = RenderArray(l)

\* what a field contributes: its value when well-formed, the empty default
\* otherwise
AnswerOrDefault(v) == IF GoodAnswer(v) THEN Strip(CharsOf(v[1])) ELSE <<>>
DetailsOrDefault(v) ==
    IF GoodDetails(v)
    THEN SpaceSeparated(CHOOSE l \in DetailLists : v = RenderArray(l)) ELSE <<>>

Malformed(nv, hv, dv) ==
    (IF GoodAnswer(nv) THEN 0 ELSE 1) + (IF GoodAnswer(hv) THEN 0 ELSE 1)
        + (IF GoodDetails(dv) THEN 0 ELSE 1)

\* C12: when the response decodes as an object and exactly one of its three
\* fields is malformed, that output field is the empty default and the other
\* two output fields keep the values the response carries.
C12_OnlyMalformedFieldDegrades ==
    HallucinationParseOver =>
        \A nv, hv \in AnswerValues, dv \in DetailValues :
            (/\ Strip(raw) = RenderObject(<<JField(NON_HALLUCINATED_ANSWER, nv),
                                            JField(HALLUCINATED_ANSWER, hv),
                                            JField(HALLUCINATED_DETAILS, dv)>>)
             /\ Malformed(nv, hv, dv) = 1) =>
                /\ hg_result.val.generated_non_hlcntn_answer = AnswerOrDefault(nv)
                /\ hg_result.val.generated_hlcntn_answer = AnswerOrDefault(hv)
                /\ hg_result.val.hlcntn_part = DetailsOrDefault(dv)

\* ------------------------------------------------------------ C13
\* the tokens of the model outputs that are no literal: the name q and the
\* call exit()
CodeTok == {"q", "exit()"}
HasCode(t) == \E i \in 1..Len(t) : t[i] \in CodeTok

\* C13: the triplet parser and the verdict parsers read the model output as
\* literals and never evaluate it: no parse ends in the effect of a call, a
\* text holding a name or a call is a parse failure of the triplet parser,
\* and every key of a verdict map comes from a token that holds neither.
C13_LiteralsOnly ==
    /\ comp \in {"tg", "fc"} => pc # "parse_raised"
    /\ (TripletParseOver /\ HasCode(raw)) => Parsed.st = "exc"
    /\ (comp = "fc" /\ ~split /\ pc = "done") =>
          LET listing == IF inquiry /\ DelimsAt(raw) # {}
                         THEN RemoveNoise(AfterLast(raw)) ELSE RemoveNoise(raw)
              tokens == Pieces(listing, <<>>)
          IN \A n \in DOMAIN fc_result.val :
                 \E i \in 1..Len(tokens) :
                     /\ ~HasCode(tokens[i])
                     /\ EvalEntry(AllHyphensRemoved(tokens[i])).st = "ok"
                     /\ EvalEntry(AllHyphensRemoved(tokens[i])).key.n = n

\* ------------------------------------------------------------ C14
SplitCheck == comp = "fc" /\ split

\* the map the parser of the configured mode reads from a response
ParsedBy(inq, text) ==
    IF inq THEN parse_triplet_comparison_inquiry_output(text)
    ELSE parse_triplet_comparison_output(text)

\* while a call is prepared, pending or being parsed it is the call for the
\* next segment in reference order, every earlier segment has had its one call
\* and has its map, and at most one call has no map yet
SegmentsInOrder ==
    (SplitCheck /\ pc \in {"invoke", "parse"}) =>
        /\ seg <= Len(reference_triplets)
        /\ prompt.reference_triplets = Indexed(reference_triplets[seg])
        /\ Len(output_list) = seg - 1
        /\ calls = IF pc = "parse" THEN seg ELSE seg - 1

\* the check has returned only after one call per segment, with one map per
\* segment, and what it returned is the merge of those maps in segment order
MergeAfterAllSegments ==
    (SplitCheck /\ pc = "done") =>
        /\ calls = Len(reference_triplets)
        /\ Len(output_list) = Len(reference_triplets)
        /\ fc_result = FcReturned(merge_segment_outputs(output_list))

\* a map joins the list as the parse of the response to the call just made,
\* at the position of that call's segment
MapsInSegmentOrder ==
    (SplitCheck /\ output_list' # output_list) =>
        /\ output_list' = Append(output_list, ParsedBy(inquiry, raw).val)
        /\ prompt.reference_triplets = Indexed(reference_triplets[Len(output_list) + 1])
        /\ calls = Len(output_list) + 1

\* the result is set once, by the merge, and the maps are not changed by it
MergeRunsOnce ==
    (SplitCheck /\ fc_result' # fc_result) =>
        /\ fc_result = FcNotReturned
        /\ seg > Len(reference_triplets)
        /\ UNCHANGED <<calls, output_list>>

\* C14: a split check issues exactly one model call per reference segment,
\* one at a time and in reference order (the call for a segment is made only
\* when every earlier segment's call has returned and been parsed), and the
\* merge runs once, after the calls for all segments, over the per-segment
\* maps in segment order.
C14_OneCallPerSegmentThenMerge ==
    /\ [](SegmentsInOrder /\ MergeAfterAllSegments)
    /\ [][MapsInSegmentOrder /\ MergeRunsOnce]_vars

\* a split check over two segments has returned after two calls whose maps
\* differ
C14_TwoSegmentsChecked ==
    /\ SplitCheck /\ pc = "done"
    /\ Len(reference_triplets) = 2 /\ calls = 2
    /\ output_list[1] # output_list[2]

\* ------------------------------------------------------------ C15
SingleCheck == comp = "fc" /\ ~split

\* C15: a check that is not split invokes the model exactly once, however
\* many reference segments it is given and also when the response yields no
\* verdict; the reference half of its one prompt lists the flattening of all
\* the segments, and the parse of the one response is the map returned, after
\* which nothing more is done.
C15_OneCallOverFlattenedReference ==
    SingleCheck =>
        /\ calls = IF pc \in {"forward", "invoke"} THEN 0 ELSE 1
        /\ pc \in {"invoke", "parse", "done", "parse_raised", "invoke_raised"} =>
               /\ prompt.reference_triplets = Indexed(flatten_triplets(reference_triplets))
               /\ prompt.answer_triplets = Indexed(answer_triplets)
        /\ pc = "done" =>
               /\ fc_result = ParsedBy(inquiry, raw)
               /\ output_list = <<>>
               /\ ~ENABLED Next

\* a check that is not split, over two segments, has returned an empty map
\* after its one call
C15_TwoSegmentsNoVerdict ==
    /\ SingleCheck /\ pc = "done"
    /\ Len(reference_triplets) = 2
    /\ Len(prompt.reference_triplets) = 4
    /\ calls = 1
    /\ fc_result = FcReturned(EmptyMap)

\* ------------------------------------------------------------ C16
InquiryTemplate == "n_shot_triplet_match_test_inquiry"
PlainTemplate == "n_shot_triplet_match_test"
InquiryParser == "parse_triplet_comparison_inquiry_output"
PlainParser == "parse_triplet_comparison_output"

\* C16: in every comparison, of a check that is split or not and for every
\* segment, the response is parsed by the inquiry parser exactly when its
\* prompt was built from the inquiry template, and by the plain parser
\* exactly when the prompt was built from the plain template; and the map
\* obtained is that parser's reading of the response.
C16_PromptAndParserAgree ==
    /\ [](comp = "fc" /\ parser # "none" =>
            /\ prompt.template \in {InquiryTemplate, PlainTemplate}
            /\ parser \in {InquiryParser, PlainParser}
            /\ prompt.template = InquiryTemplate <=> parser = InquiryParser
            /\ prompt.template = PlainTemplate <=> parser = PlainParser)
    /\ [][(comp = "fc" /\ pc = "parse" /\ pc' # "parse_raised") =>
            LET got == IF split THEN output_list'[Len(output_list')] ELSE fc_result'.val
            IN got = (IF prompt.template = InquiryTemplate
                      THEN parse_triplet_comparison_inquiry_output(raw)
                      ELSE parse_triplet_comparison_output(raw)).val]_vars

\* the second segment of a split check in inquiry mode has been parsed
C16_SecondInquirySegmentParsed ==
    /\ SplitCheck /\ inquiry
    /\ Len(output_list) = 2
    /\ prompt.template = InquiryTemplate
    /\ parser = InquiryParser

\* ------------------------------------------------------------ C17
\* the listing a parser reads from a response
ListingOf(inq, text) ==
    IF inq THEN RemoveNoise(IF DelimsAt(text) = {} THEN text ELSE AfterLast(text))
    ELSE text

\* C17: when an index appears in more than one well-formed index:boolean
\* token of a response, the map returned holds for that index the verdict
\* of the last such token in text order.
C17_LastWellFormedTokenWins ==
    (SingleCheck /\ pc = "done") =>
        LET tokens == Pieces(ListingOf(inquiry, raw), <<>>)
            WF(n) == {i \in 1..Len(tokens) :
                         WellFormedEntry(tokens[i]) /\ EntryIndex(tokens[i]) = n}
        IN \A n \in 0..(MaxIdx + 1) :
               Cardinality(WF(n)) > 1 =>
                   /\ n \in DOMAIN fc_result.val
                   /\ fc_result.val[n].val =
                          EntryVerdict(tokens[CHOOSE i \in WF(n) : \A j \in WF(n) : j <= i])

\* ------------------------------------------------------------ C18
UndelimitedInquiryParseOver ==
    comp = "fc" /\ ~split /\ inquiry /\ pc \in {"done", "parse_raised"}
        /\ DelimsAt(raw) = {}

\* C18: when "[FINAL ANSWER]" does not occur in the response, the inquiry
\* parser reads the whole response as the verdict listing: its outcome is the
\* outcome of the plain parser on the response with the noise tokens
\* triplet_idx_ and triplet_ removed.
C18_UndelimitedInquiryIsPlainParse ==
    UndelimitedInquiryParseOver =>
        SingleOutcome = parse_triplet_comparison_output(RemoveNoise(raw))

\* an inquiry response without delimiter and with a labelled index has been
\* parsed to a map that the plain parser does not read from the same text
C18_LabelledIndexWithoutDelimiter ==
    /\ UndelimitedInquiryParseOver /\ pc = "done"
    /\ \E i \in 1..Len(raw) : raw[i] \in {"triplet_idx_", "triplet_"}
    /\ fc_result.val # EmptyMap
    /\ fc_result # parse_triplet_comparison_output(raw)

====
